---- MODULE Spec2Model ----
(***************************************************************************)
(* Model of the push-notification Cloud Functions of                       *)
(* src/cloud-functions-index.js.                                           *)
(*                                                                         *)
(* The shared state is the two Firestore collections (notification_tokens  *)
(* and notification_logs).  Every invocation of a handler is a process     *)
(* whose steps are the stretches of code between two awaits: a step ends   *)
(* where the code issues an asynchronous store or gateway call, and the    *)
(* next step starts when that call returns or throws.  Document deletions  *)
(* issued without await (doc.ref.delete() inside forEach) are writes in    *)
(* flight that take effect, or fail, at any later moment.                  *)
(***************************************************************************)
EXTENDS Integers, Sequences, FiniteSets, TLC

\* ---------------------------------------------------------------- bounds
\* Number of document ids of notification_tokens the model considers.
MaxDocs == 2

\* The process slots of invocations.
Procs == {"p1", "p2"}

DocIds == 1..MaxDocs

\* ---------------------------------------------------------------- values
Undefined == "<undefined>"
Null == "<null>"
EmptyString == ""

\* Device token values a record can hold; EmptyString is a record whose
\* token field is falsy.
TokenValues == {"A", "B"}
StoredTokenValues == TokenValues \cup {EmptyString}

\* Registration timestamps (days).
Timestamps == {0}

\* Per-handle results of the push provider.
ErrorKinds == {"InvalidHandle", "TransientFailure", "QuotaExceeded"}
Outcomes == {"success"} \cup ErrorKinds

Methods == {"POST", "GET"}
AppIds == {Undefined, EmptyString, "app1"}
Types == {Undefined, "UPDATE"}
Progresses == {Undefined, Null, "0", "50"}
DeviceTokens == {Undefined, "A"}
Versions == {"1.0", "1.1"}
AppNames == {"App", "App2"}
\* The fields of an apps/{appId} document the trigger reads.
AppDocs == [version : Versions, name : AppNames]

\* A truthiness test that lets an absent (undefined) field pass.
FalsyIgnoringUndefined(v) == v \in {Null, EmptyString}

\* JavaScript truthiness of a request or document field: !v is true for
\* undefined, null and the empty string.
Falsy(v) == v \in {Undefined, Null, EmptyString}

VARIABLES
    tokenDocs,      \* notification_tokens: doc id -> [token, timestamp]
    logs,           \* notification_logs: sequence of appended entries
    pendingDeletes, \* per invocation: doc ids whose delete() is in flight
    pc,             \* per invocation: the await it is suspended at
    req,            \* per invocation: the request or event it serves
    tokens,         \* per invocation: local array `tokens`
    response,       \* per invocation: responses of sendMulticast
    pruneIdx,       \* per invocation: position in failedTokens
    replies,        \* per invocation: HTTP responses sent, in order
    result,         \* per invocation: how a trigger function ended
    calls,          \* per invocation: store and gateway calls issued
    settled,        \* per invocation: the awaits that returned or threw
    locals          \* per invocation: locals of cleanupTokens and
                    \* getNotificationStats

vars == <<tokenDocs, logs, pendingDeletes, pc, req, tokens, response,
          pruneIdx, replies, result, calls, settled, locals>>

\* ---------------------------------------------------------------- helpers
RECURSIVE SortedIds(_)
\* Document ids of a snapshot in ascending order (Firestore's default order).
SortedIds(S) ==
    IF S = {} THEN <<>>
    ELSE LET m == CHOOSE x \in S : \A y \in S : x <= y
         IN <<m>> \o SortedIds(S \ {m})

RECURSIVE CollectTokens(_, _)
\* tokensSnapshot.forEach(doc => { if (token) tokens.push(token) })
CollectTokens(docs, ids) ==
    IF ids = <<>> THEN <<>>
    ELSE LET t == docs[Head(ids)].token
             rest == CollectTokens(docs, Tail(ids))
         IN IF Falsy(t) THEN rest ELSE <<t>> \o rest

\* The array built from db.collection('notification_tokens').get().
FetchTokens(docs) == CollectTokens(docs, SortedIds(DOMAIN docs))

\* response.successCount / response.failureCount of a multicast response.
SuccessCount(resp) == Cardinality({i \in DOMAIN resp : resp[i] = "success"})
FailureCount(resp) == Cardinality({i \in DOMAIN resp : resp[i] # "success"})

RECURSIVE FailedFrom(_, _, _)
FailedFrom(resp, toks, i) ==
    IF i > Len(resp) THEN <<>>
    ELSE IF resp[i] = "success" THEN FailedFrom(resp, toks, i + 1)
    ELSE <<toks[i]>> \o FailedFrom(resp, toks, i + 1)

\* response.responses.map((resp, idx) => resp.success ? null : tokens[idx])
\*                   .filter(token => token)
FailedTokens(resp, toks) == FailedFrom(resp, toks, 1)

\* where('token', '==', token).get(): the ids of the matching documents.
DocsWithToken(docs, t) == {d \in DOMAIN docs : docs[d].token = t}

\* All sequences of per-handle outcomes of length n.
OutcomeSeqs(n) == [1..n -> Outcomes]

NoCalls == [reads |-> 0, deletes |-> {}, multicast |-> <<>>, single |-> <<>>,
            logAdds |-> 0]

NoReq == [fn |-> "none", method |-> Undefined, appId |-> Undefined,
          type |-> Undefined, progress |-> Undefined,
          deviceToken |-> Undefined, token |-> Undefined,
          oldVersion |-> Undefined, oldName |-> Undefined,
          version |-> Undefined, appName |-> Undefined, now |-> 0]

\* Locals of an invocation before it assigns them: the query snapshot,
\* deletedCount and the documents the batch removed (cleanupTokens),
\* totalTokens (getNotificationStats); and two records of the run: the
\* invocations that had ended when this one started, and the documents
\* whose delete() the store rejected.
NoLocals == [snapshot |-> {}, deletedCount |-> 0, removed |-> {},
             totalTokens |-> 0, predecessors |-> {}, rejected |-> {}]

\* ---------------------------------------------------------------- state
\* Every content of notification_tokens over DocIds: registration is not
\* part of these functions, so the store starts with any set of records.
TokenStores ==
    UNION {[ids -> [token : StoredTokenValues, timestamp : Timestamps]] :
           ids \in SUBSET DocIds}

\* The state before any step of the invocations in `active`, over a token
\* store of `stores` and a log of `logStores`; the other process slots
\* never run.
InitWith(active, stores, logStores) ==
    /\ tokenDocs \in stores
    /\ logs \in logStores
    /\ pendingDeletes = [p \in Procs |-> {}]
    /\ pc = [p \in Procs |-> IF p \in active THEN "idle" ELSE "off"]
    /\ req = [p \in Procs |-> NoReq]
    /\ tokens = [p \in Procs |-> <<>>]
    /\ response = [p \in Procs |-> <<>>]
    /\ pruneIdx = [p \in Procs |-> 0]
    /\ replies = [p \in Procs |-> <<>>]
    /\ result = [p \in Procs |-> "none"]
    /\ calls = [p \in Procs |-> NoCalls]
    /\ settled = [p \in Procs |-> <<>>]
    /\ locals = [p \in Procs |-> NoLocals]

\* One invocation against any content of the store.
Init == InitWith({"p1"}, TokenStores, {<<>>})

\* The await the invocation is suspended at returns (ok) or throws.
Settle(p, ok) ==
    settled' = [settled EXCEPT ![p] = Append(@, [at |-> pc[p], ok |-> ok])]

\* A handler that skips the empty-array check.
NoTargetsNever(toks) == FALSE

\* if (tokens.length === 0): the fetch produced no usable token.
NoTargets(toks) == Len(toks) = 0

\* A catch block that answers "not found" instead of an internal error.
ErrorReplyAsNotFound == [status |-> 404]

\* catch (error) { res.status(500).json({success: false, error: ...}) }
ErrorReply == [status |-> 500, success |-> FALSE]

\* A handler that sends its response twice.
ReplyTwice(p, body) ==
    replies' = [replies EXCEPT ![p] = Append(Append(@, body), body)]

\* res.status(s).json(body)
Reply(p, body) == replies' = [replies EXCEPT ![p] = Append(@, body)]

\* await db.collection('notification_tokens').get() is issued
IssueFetch(p) ==
    /\ pc' = [pc EXCEPT ![p] = "fetching"]
    /\ calls' = [calls EXCEPT ![p].reads = @ + 1]

\* ---------------------------------------------------------------- sendNotification
\* Entry of the handler up to its first await.
SendNotificationStart(p, method, appId, type) ==
    /\ pc[p] = "idle"
    /\ req' = [req EXCEPT ![p] = [NoReq EXCEPT !.fn = "sendNotification",
                  !.method = method, !.appId = appId, !.type = type]]
    /\ IF method # "POST"
       THEN /\ Reply(p, [status |-> 405])
            /\ pc' = [pc EXCEPT ![p] = "done"]
            /\ UNCHANGED calls
       ELSE IF Falsy(appId) \/ Falsy(type)
       THEN /\ Reply(p, [status |-> 400])
            /\ pc' = [pc EXCEPT ![p] = "done"]
            /\ UNCHANGED calls
       ELSE /\ IssueFetch(p)
            /\ UNCHANGED replies
    /\ UNCHANGED <<tokenDocs, logs, pendingDeletes, tokens, response,
                   pruneIdx, result,
                   settled,
                   locals>>

\* await messaging.sendMulticast({tokens: tokens, ...}) is issued
IssueMulticast(p, toks) ==
    /\ pc' = [pc EXCEPT ![p] = "sending"]
    /\ calls' = [calls EXCEPT ![p].multicast = Append(@, toks)]

\* The token fetch returned its snapshot.
SendNotificationFetched(p) ==
    /\ pc[p] = "fetching"
    /\ req[p].fn = "sendNotification"
    /\ Settle(p, TRUE)
    /\ LET toks == FetchTokens(tokenDocs)
       IN /\ tokens' = [tokens EXCEPT ![p] = toks]
          /\ IF NoTargets(toks)
             THEN /\ Reply(p, [status |-> 404])
                  /\ pc' = [pc EXCEPT ![p] = "done"]
                  /\ UNCHANGED calls
             ELSE /\ IssueMulticast(p, toks)
                  /\ UNCHANGED replies
    /\ UNCHANGED <<tokenDocs, logs, pendingDeletes, req, response, pruneIdx,
                   result,
                   locals>>

\* res.json({success: true, successCount, failureCount, totalSent, ...})
SendNotificationReport(p, resp) ==
    [status |-> 200, success |-> TRUE,
     successCount |-> SuccessCount(resp),
     failureCount |-> FailureCount(resp),
     totalSent |-> Len(tokens[p])]

\* sendMulticast returned a response with one outcome per handle.
SendNotificationSent(p, resp) ==
    /\ pc[p] = "sending"
    /\ req[p].fn = "sendNotification"
    /\ Settle(p, TRUE)
    /\ resp \in OutcomeSeqs(Len(tokens[p]))
    /\ response' = [response EXCEPT ![p] = resp]
    /\ IF FailureCount(resp) > 0 /\ Len(FailedTokens(resp, tokens[p])) > 0
       THEN \* first where('token', '==', token).get() of the clean-up loop
            /\ pruneIdx' = [pruneIdx EXCEPT ![p] = 1]
            /\ pc' = [pc EXCEPT ![p] = "pruning"]
            /\ calls' = [calls EXCEPT ![p].reads = @ + 1]
            /\ UNCHANGED replies
       ELSE /\ Reply(p, SendNotificationReport(p, resp))
            /\ pc' = [pc EXCEPT ![p] = "done"]
            /\ UNCHANGED <<pruneIdx, calls>>
    /\ UNCHANGED <<tokenDocs, logs, pendingDeletes, req, tokens, result,
                   locals>>

\* The documents whose delete() the clean-up loop issues for one failed
\* token: snapshot.forEach(doc => doc.ref.delete())
DocsToDelete(docs, t) == DocsWithToken(docs, t)

\* A look-up of the clean-up loop returned: delete() is called on every
\* matching document without being awaited, then the loop goes on.
SendNotificationLookedUp(p) ==
    /\ pc[p] = "pruning"
    /\ req[p].fn = "sendNotification"
    /\ Settle(p, TRUE)
    /\ LET failed == FailedTokens(response[p], tokens[p])
           t == failed[pruneIdx[p]]
           hit == DocsToDelete(tokenDocs, t)
           issued == {[doc |-> d, token |-> t] : d \in hit}
       IN /\ pendingDeletes' = [pendingDeletes EXCEPT ![p] = @ \cup hit]
          /\ IF pruneIdx[p] < Len(failed)
             THEN /\ pruneIdx' = [pruneIdx EXCEPT ![p] = @ + 1]
                  /\ calls' = [calls EXCEPT ![p].deletes = @ \cup issued,
                                            ![p].reads = @ + 1]
                  /\ UNCHANGED <<pc, replies>>
             ELSE /\ Reply(p, SendNotificationReport(p, response[p]))
                  /\ pc' = [pc EXCEPT ![p] = "done"]
                  /\ calls' = [calls EXCEPT ![p].deletes = @ \cup issued]
                  /\ UNCHANGED pruneIdx
    /\ UNCHANGED <<tokenDocs, logs, req, tokens, response, result,
                   locals>>

\* An awaited call (token fetch, sendMulticast, clean-up look-up) threw:
\* catch (error) { res.status(500).json({success: false, ...}) }
SendNotificationThrown(p) ==
    /\ pc[p] \in {"fetching", "sending", "pruning"}
    /\ req[p].fn = "sendNotification"
    /\ Settle(p, FALSE)
    /\ Reply(p, ErrorReply)
    /\ pc' = [pc EXCEPT ![p] = "done"]
    /\ UNCHANGED <<tokenDocs, logs, pendingDeletes, req, tokens, response,
                   pruneIdx, result, calls,
                   locals>>

\* ---------------------------------------------------------------- writes in flight
\* A delete() issued by the clean-up loop takes effect in the store.
DeleteApplied(p, d) ==
    /\ d \in pendingDeletes[p]
    /\ tokenDocs' = [x \in DOMAIN tokenDocs \ {d} |-> tokenDocs[x]]
    /\ pendingDeletes' = [pendingDeletes EXCEPT ![p] = @ \ {d}]
    /\ UNCHANGED <<logs, pc, req, tokens, response, pruneIdx, replies,
                   result, calls,
                   settled,
                   locals>>

\* A delete() issued by the clean-up loop is rejected by the store; nothing
\* handles the rejection.
DeleteFailed(p, d) ==
    /\ d \in pendingDeletes[p]
    /\ pendingDeletes' = [pendingDeletes EXCEPT ![p] = @ \ {d}]
    /\ locals' = [locals EXCEPT ![p].rejected = @ \cup {d}]
    /\ UNCHANGED <<tokenDocs, logs, pc, req, tokens, response, pruneIdx,
                   replies, result, calls, settled>>

\* ---------------------------------------------------------------- sendDownloadProgress
\* A handler that ignores the device token of the request.
TargetedNever(deviceToken) == FALSE

\* if (deviceToken): the request names one device.
Targeted(deviceToken) == ~Falsy(deviceToken)

\* Entry of the handler up to its first await.
SendDownloadProgressStart(p, appId, progress, deviceToken) ==
    /\ pc[p] = "idle"
    /\ req' = [req EXCEPT ![p] = [NoReq EXCEPT !.fn = "sendDownloadProgress",
                  !.appId = appId, !.progress = progress,
                  !.deviceToken = deviceToken]]
    /\ IF Falsy(appId) \/ progress = Undefined
       THEN /\ Reply(p, [status |-> 400])
            /\ pc' = [pc EXCEPT ![p] = "done"]
            /\ UNCHANGED calls
       ELSE IF Targeted(deviceToken)
       THEN IF progress = Null
            THEN \* progress.toString() throws before messaging.send is called
                 /\ Reply(p, ErrorReply)
                 /\ pc' = [pc EXCEPT ![p] = "done"]
                 /\ UNCHANGED calls
            ELSE /\ pc' = [pc EXCEPT ![p] = "sendingOne"]
                 /\ calls' = [calls EXCEPT ![p].single = Append(@, deviceToken)]
                 /\ UNCHANGED replies
       ELSE /\ IssueFetch(p)
            /\ UNCHANGED replies
    /\ UNCHANGED <<tokenDocs, logs, pendingDeletes, tokens, response,
                   pruneIdx, result,
                   settled,
                   locals>>

\* messaging.send to the given device token returned.
SendDownloadProgressSingleSent(p) ==
    /\ pc[p] = "sendingOne"
    /\ req[p].fn = "sendDownloadProgress"
    /\ Settle(p, TRUE)
    /\ Reply(p, [status |-> 200, success |-> TRUE])
    /\ pc' = [pc EXCEPT ![p] = "done"]
    /\ UNCHANGED <<tokenDocs, logs, pendingDeletes, req, tokens, response,
                   pruneIdx, result, calls,
                   locals>>

\* The token fetch returned its snapshot.
SendDownloadProgressFetched(p) ==
    /\ pc[p] = "fetching"
    /\ req[p].fn = "sendDownloadProgress"
    /\ Settle(p, TRUE)
    /\ LET toks == FetchTokens(tokenDocs)
       IN /\ tokens' = [tokens EXCEPT ![p] = toks]
          /\ IF NoTargets(toks)
             THEN /\ Reply(p, [status |-> 404])
                  /\ pc' = [pc EXCEPT ![p] = "done"]
                  /\ UNCHANGED calls
             ELSE IF req[p].progress = Null
             THEN \* progress.toString() throws while the message is built
                  /\ Reply(p, ErrorReply)
                  /\ pc' = [pc EXCEPT ![p] = "done"]
                  /\ UNCHANGED calls
             ELSE /\ IssueMulticast(p, toks)
                  /\ UNCHANGED replies
    /\ UNCHANGED <<tokenDocs, logs, pendingDeletes, req, response, pruneIdx,
                   result,
                   locals>>

\* sendMulticast returned: the counts are reported, nothing is cleaned up.
SendDownloadProgressSent(p, resp) ==
    /\ pc[p] = "sending"
    /\ req[p].fn = "sendDownloadProgress"
    /\ Settle(p, TRUE)
    /\ resp \in OutcomeSeqs(Len(tokens[p]))
    /\ response' = [response EXCEPT ![p] = resp]
    /\ Reply(p, [status |-> 200, success |-> TRUE,
                 successCount |-> SuccessCount(resp),
                 failureCount |-> FailureCount(resp)])
    /\ pc' = [pc EXCEPT ![p] = "done"]
    /\ UNCHANGED <<tokenDocs, logs, pendingDeletes, req, tokens, pruneIdx,
                   result, calls,
                   locals>>

\* An awaited call (single send, token fetch, sendMulticast) threw.
SendDownloadProgressThrown(p) ==
    /\ pc[p] \in {"sendingOne", "fetching", "sending"}
    /\ req[p].fn = "sendDownloadProgress"
    /\ Settle(p, FALSE)
    /\ Reply(p, ErrorReply)
    /\ pc' = [pc EXCEPT ![p] = "done"]
    /\ UNCHANGED <<tokenDocs, logs, pendingDeletes, req, tokens, response,
                   pruneIdx, result, calls,
                   locals>>

\* ---------------------------------------------------------------- notifyOnAppUpdate
\* context.params.appId of the updated app document.
AppId == "app1"

\* A trigger that compares the whole document instead of its version.
WholeRecordUnchanged(oldData, newData) == oldData = newData

\* if (oldData.version === newData.version) return;
VersionUnchanged(oldData, newData) == oldData.version = newData.version

\* Entry of the trigger up to its first await.
NotifyOnAppUpdateStart(p, oldData, newData) ==
    /\ pc[p] = "idle"
    /\ req' = [req EXCEPT ![p] = [NoReq EXCEPT !.fn = "notifyOnAppUpdate",
                  !.appId = AppId, !.oldVersion = oldData.version,
                  !.oldName = oldData.name, !.version = newData.version,
                  !.appName = newData.name]]
    /\ IF VersionUnchanged(oldData, newData)
       THEN /\ result' = [result EXCEPT ![p] = "unchanged"]
            /\ pc' = [pc EXCEPT ![p] = "done"]
            /\ UNCHANGED calls
       ELSE /\ IssueFetch(p)
            /\ UNCHANGED result
    /\ UNCHANGED <<tokenDocs, logs, pendingDeletes, tokens, response,
                   pruneIdx, replies,
                   settled,
                   locals>>

\* The token fetch returned its snapshot.
NotifyOnAppUpdateFetched(p) ==
    /\ pc[p] = "fetching"
    /\ req[p].fn = "notifyOnAppUpdate"
    /\ Settle(p, TRUE)
    /\ LET toks == FetchTokens(tokenDocs)
       IN /\ tokens' = [tokens EXCEPT ![p] = toks]
          /\ IF NoTargets(toks)
             THEN /\ result' = [result EXCEPT ![p] = "noTokens"]
                  /\ pc' = [pc EXCEPT ![p] = "done"]
                  /\ UNCHANGED calls
             ELSE /\ IssueMulticast(p, toks)
                  /\ UNCHANGED result
    /\ UNCHANGED <<tokenDocs, logs, pendingDeletes, req, response, pruneIdx,
                   replies,
                   locals>>

\* sendMulticast returned: await db.collection('notification_logs').add(..)
\* is issued.
NotifyOnAppUpdateSent(p, resp) ==
    /\ pc[p] = "sending"
    /\ req[p].fn = "notifyOnAppUpdate"
    /\ Settle(p, TRUE)
    /\ resp \in OutcomeSeqs(Len(tokens[p]))
    /\ response' = [response EXCEPT ![p] = resp]
    /\ pc' = [pc EXCEPT ![p] = "logging"]
    /\ calls' = [calls EXCEPT ![p].logAdds = @ + 1]
    /\ UNCHANGED <<tokenDocs, logs, pendingDeletes, req, tokens, pruneIdx,
                   replies, result,
                   locals>>

\* A log entry that carries the version of the document before the update.
UpdateLogEntryOldVersion(p) ==
    [appId |-> req[p].appId, appName |-> req[p].appName, type |-> "UPDATE",
     version |-> req[p].oldVersion,
     sentCount |-> SuccessCount(response[p]),
     failureCount |-> FailureCount(response[p]),
     timestamp |-> req[p].now]

\* The entry written to notification_logs.
UpdateLogEntry(p) ==
    [appId |-> req[p].appId, appName |-> req[p].appName, type |-> "UPDATE",
     version |-> req[p].version,
     sentCount |-> SuccessCount(response[p]),
     failureCount |-> FailureCount(response[p]),
     timestamp |-> req[p].now]

\* The log entry was added; the trigger returns the multicast response.
NotifyOnAppUpdateLogged(p) ==
    /\ pc[p] = "logging"
    /\ req[p].fn = "notifyOnAppUpdate"
    /\ Settle(p, TRUE)
    /\ logs' = Append(logs, UpdateLogEntry(p))
    /\ result' = [result EXCEPT ![p] = "response"]
    /\ pc' = [pc EXCEPT ![p] = "done"]
    /\ UNCHANGED <<tokenDocs, pendingDeletes, req, tokens, response, pruneIdx,
                   replies, calls,
                   locals>>

\* An awaited call (token fetch, sendMulticast, log add) threw:
\* catch (error) { throw error }
NotifyOnAppUpdateThrown(p) ==
    /\ pc[p] \in {"fetching", "sending", "logging"}
    /\ req[p].fn = "notifyOnAppUpdate"
    /\ Settle(p, FALSE)
    /\ result' = [result EXCEPT ![p] = "thrown"]
    /\ pc' = [pc EXCEPT ![p] = "done"]
    /\ UNCHANGED <<tokenDocs, logs, pendingDeletes, req, tokens, response,
                   pruneIdx, replies, calls,
                   locals>>

\* ---------------------------------------------------------------- testNotification
\* Entry of the handler up to its first await.
TestNotificationStart(p, method, token) ==
    /\ pc[p] = "idle"
    /\ req' = [req EXCEPT ![p] = [NoReq EXCEPT !.fn = "testNotification",
                  !.method = method, !.token = token]]
    /\ IF method # "POST"
       THEN /\ Reply(p, [status |-> 405])
            /\ pc' = [pc EXCEPT ![p] = "done"]
            /\ UNCHANGED calls
       ELSE IF Falsy(token)
       THEN /\ Reply(p, [status |-> 400])
            /\ pc' = [pc EXCEPT ![p] = "done"]
            /\ UNCHANGED calls
       ELSE /\ pc' = [pc EXCEPT ![p] = "sendingOne"]
            /\ calls' = [calls EXCEPT ![p].single = Append(@, token)]
            /\ UNCHANGED replies
    /\ UNCHANGED <<tokenDocs, logs, pendingDeletes, tokens, response,
                   pruneIdx, result,
                   settled,
                   locals>>

\* messaging.send returned.
TestNotificationSent(p) ==
    /\ pc[p] = "sendingOne"
    /\ req[p].fn = "testNotification"
    /\ Settle(p, TRUE)
    /\ Reply(p, [status |-> 200, success |-> TRUE])
    /\ pc' = [pc EXCEPT ![p] = "done"]
    /\ UNCHANGED <<tokenDocs, logs, pendingDeletes, req, tokens, response,
                   pruneIdx, result, calls,
                   locals>>

\* messaging.send threw.
TestNotificationThrown(p) ==
    /\ pc[p] = "sendingOne"
    /\ req[p].fn = "testNotification"
    /\ Settle(p, FALSE)
    /\ Reply(p, ErrorReply)
    /\ pc' = [pc EXCEPT ![p] = "done"]
    /\ UNCHANGED <<tokenDocs, logs, pendingDeletes, req, tokens, response,
                   pruneIdx, result, calls,
                   locals>>

\* ---------------------------------------------------------------- cleanupTokens
\* 90 * 24 * 60 * 60 * 1000 ms, in days.
RetentionDays == 90

\* Values of Date.now() at a clean-up run and registration timestamps of
\* the records (days): a record is older than, at or newer than the cutoff.
CleanupDays == {100, 101}
CleanupTimestamps == {10, 11}

\* const ninetyDaysAgo = new Date(Date.now() - 90 * 24 * 60 * 60 * 1000)
NinetyDaysAgo(now) == now - RetentionDays

\* A query that also matches the records registered at the cutoff.
ExpiredDocsInclusive(docs, cutoff) ==
    {d \in DOMAIN docs : docs[d].timestamp <= cutoff}

\* where('timestamp', '<', ninetyDaysAgo).get(): the matching documents.
ExpiredDocs(docs, cutoff) ==
    {d \in DOMAIN docs : docs[d].timestamp < cutoff}

\* Entry of the scheduled function up to its first await (the query).
CleanupTokensStart(p, now) ==
    /\ pc[p] = "idle"
    /\ req' = [req EXCEPT ![p] = [NoReq EXCEPT !.fn = "cleanupTokens",
                                                !.now = now]]
    /\ pc' = [pc EXCEPT ![p] = "querying"]
    /\ calls' = [calls EXCEPT ![p].reads = @ + 1]
    /\ locals' = [locals EXCEPT ![p].predecessors =
                      {q \in Procs : pc[q] = "done"}]
    /\ UNCHANGED <<tokenDocs, logs, pendingDeletes, tokens, response,
                   pruneIdx, replies, result, settled>>

\* The query returned: every document of the snapshot is put in the batch
\* and counted, then await batch.commit() is issued.
CleanupTokensQueried(p) ==
    /\ pc[p] = "querying"
    /\ req[p].fn = "cleanupTokens"
    /\ Settle(p, TRUE)
    /\ LET snap == ExpiredDocs(tokenDocs, NinetyDaysAgo(req[p].now))
       IN /\ locals' = [locals EXCEPT ![p].snapshot = snap,
                                      ![p].deletedCount = Cardinality(snap)]
          /\ calls' = [calls EXCEPT ![p].deletes = @ \cup
                          {[doc |-> d, token |-> tokenDocs[d].token] :
                               d \in snap}]
    /\ pc' = [pc EXCEPT ![p] = "committing"]
    /\ UNCHANGED <<tokenDocs, logs, pendingDeletes, req, tokens, response,
                   pruneIdx, replies, result>>

\* A commit that leaves the store as it was.
BatchCommitNothing(docs, batch) == docs

\* await batch.commit(): the documents of the batch are deleted together.
BatchCommit(docs, batch) == [x \in DOMAIN docs \ batch |-> docs[x]]

\* The batch was committed: its documents are gone, those that another
\* writer had already deleted included; the function returns its message.
CleanupTokensCommitted(p) ==
    /\ pc[p] = "committing"
    /\ req[p].fn = "cleanupTokens"
    /\ Settle(p, TRUE)
    /\ tokenDocs' = BatchCommit(tokenDocs, locals[p].snapshot)
    /\ locals' = [locals EXCEPT ![p].removed =
                      locals[p].snapshot \cap DOMAIN tokenDocs]
    /\ result' = [result EXCEPT ![p] = "returned"]
    /\ pc' = [pc EXCEPT ![p] = "done"]
    /\ UNCHANGED <<logs, pendingDeletes, req, tokens, response, pruneIdx,
                   replies, calls>>

\* The query or the commit threw: catch (error) { throw error }
CleanupTokensThrown(p) ==
    /\ pc[p] \in {"querying", "committing"}
    /\ req[p].fn = "cleanupTokens"
    /\ Settle(p, FALSE)
    /\ result' = [result EXCEPT ![p] = "thrown"]
    /\ pc' = [pc EXCEPT ![p] = "done"]
    /\ UNCHANGED <<tokenDocs, logs, pendingDeletes, req, tokens, response,
                   pruneIdx, replies, calls, locals>>

\* ---------------------------------------------------------------- getNotificationStats
\* 30 * 24 * 60 * 60 * 1000 ms, in days.
StatsWindowDays == 30

\* The longest notification_logs a statistics request is checked against.
MaxLogs == 2

\* Values of Date.now() at a statistics request and days of the log
\* entries: an entry is older than, at or newer than the start of the
\* window.
StatsDays == {40, 41}
LogTimestamps == {10, 11}

\* The entries notifyOnAppUpdate can have written: the counts of a
\* multicast to at least one and at most MaxDocs handles.
LogEntries ==
    {[appId |-> AppId, appName |-> "App", type |-> "UPDATE",
      version |-> "1.1", sentCount |-> s, failureCount |-> f,
      timestamp |-> t] :
         <<s, f, t>> \in {x \in (0..MaxDocs) \X (0..MaxDocs) \X LogTimestamps :
                              x[1] + x[2] \in 1..MaxDocs}}

LogStores == UNION {[1..n -> LogEntries] : n \in 0..MaxLogs}

\* const thirtyDaysAgo = new Date(Date.now() - 30 * 24 * 60 * 60 * 1000)
ThirtyDaysAgo(now) == now - StatsWindowDays

\* where('timestamp', '>', thirtyDaysAgo).get(): the matching entries, as
\* positions of the log.
RecentLogs(entries, cutoff) ==
    {i \in DOMAIN entries : entries[i].timestamp > cutoff}

\* count || 0 on a number: the entries of the log carry numeric counts.
OrZero(count) == IF count = 0 THEN 0 ELSE count

RECURSIVE SumOver(_, _, _)
\* logsSnapshot.forEach(doc => total += doc.data()[field] || 0)
SumOver(entries, idx, field) ==
    IF idx = {} THEN 0
    ELSE LET i == CHOOSE j \in idx : TRUE
         IN OrZero(entries[i][field]) + SumOver(entries, idx \ {i}, field)

\* One decimal digit as a string.
Digit(n) == ToString(n)

\* ((num / den) * 100).toFixed(2): the quotient as a percentage, rounded
\* to hundredths (half up), with exactly two decimals.
ToFixed2(num, den) ==
    LET h == (2 * 10000 * num + den) \div (2 * den)
    IN ToString(h \div 100) \o "." \o Digit((h % 100) \div 10)
           \o Digit(h % 10)

\* successRate: totalSent > 0 ? (...).toFixed(2) + '%' : '0%'
SuccessRate(totalSent, totalFailed) ==
    IF totalSent > 0
    THEN ToFixed2(totalSent, totalSent + totalFailed) \o "%"
    ELSE "0%"

\* Entry of the handler up to its first await (the token count).
GetNotificationStatsStart(p, method, now) ==
    /\ pc[p] = "idle"
    /\ req' = [req EXCEPT ![p] = [NoReq EXCEPT
                  !.fn = "getNotificationStats", !.method = method,
                  !.now = now]]
    /\ IF method # "GET"
       THEN /\ Reply(p, [status |-> 405])
            /\ pc' = [pc EXCEPT ![p] = "done"]
            /\ UNCHANGED calls
       ELSE /\ pc' = [pc EXCEPT ![p] = "counting"]
            /\ calls' = [calls EXCEPT ![p].reads = @ + 1]
            /\ UNCHANGED replies
    /\ UNCHANGED <<tokenDocs, logs, pendingDeletes, tokens, response,
                   pruneIdx, result, settled, locals>>

\* The token snapshot returned: totalTokens = tokensSnapshot.size, then the
\* log query is issued.
GetNotificationStatsCounted(p) ==
    /\ pc[p] = "counting"
    /\ Settle(p, TRUE)
    /\ locals' = [locals EXCEPT ![p].totalTokens =
                      Cardinality(DOMAIN tokenDocs)]
    /\ pc' = [pc EXCEPT ![p] = "readingLogs"]
    /\ calls' = [calls EXCEPT ![p].reads = @ + 1]
    /\ UNCHANGED <<tokenDocs, logs, pendingDeletes, req, tokens, response,
                   pruneIdx, replies, result>>

\* res.json({totalTokens, successRate, last30Days: {sent, failed, total}})
StatsReport(p, totalSent, totalFailed) ==
    [status |-> 200, totalTokens |-> locals[p].totalTokens,
     successRate |-> SuccessRate(totalSent, totalFailed),
     sent |-> totalSent, failed |-> totalFailed,
     total |-> totalSent + totalFailed]

\* The log query returned: the counts are summed and the report is sent.
GetNotificationStatsAnswered(p) ==
    /\ pc[p] = "readingLogs"
    /\ Settle(p, TRUE)
    /\ LET recent == RecentLogs(logs, ThirtyDaysAgo(req[p].now))
           totalSent == SumOver(logs, recent, "sentCount")
           totalFailed == SumOver(logs, recent, "failureCount")
       IN Reply(p, StatsReport(p, totalSent, totalFailed))
    /\ pc' = [pc EXCEPT ![p] = "done"]
    /\ UNCHANGED <<tokenDocs, logs, pendingDeletes, req, tokens, response,
                   pruneIdx, result, calls, locals>>

\* The token count or the log query threw:
\* catch (error) { res.status(500).json({success: false, ...}) }
GetNotificationStatsThrown(p) ==
    /\ pc[p] \in {"counting", "readingLogs"}
    /\ Settle(p, FALSE)
    /\ Reply(p, ErrorReply)
    /\ pc' = [pc EXCEPT ![p] = "done"]
    /\ UNCHANGED <<tokenDocs, logs, pendingDeletes, req, tokens, response,
                   pruneIdx, result, calls, locals>>

\* ---------------------------------------------------------------- specification
Next ==
    \E p \in Procs :
        \/ \E m \in Methods, a \in AppIds, t \in Types :
               SendNotificationStart(p, m, a, t)
        \/ SendNotificationFetched(p)
        \/ \E r \in OutcomeSeqs(Len(tokens[p])) : SendNotificationSent(p, r)
        \/ SendNotificationLookedUp(p)
        \/ SendNotificationThrown(p)
        \/ \E d \in DocIds : DeleteApplied(p, d)
        \/ \E d \in DocIds : DeleteFailed(p, d)
        \/ \E a \in AppIds, g \in Progresses, t \in DeviceTokens :
               SendDownloadProgressStart(p, a, g, t)
        \/ SendDownloadProgressSingleSent(p)
        \/ SendDownloadProgressFetched(p)
        \/ \E r \in OutcomeSeqs(Len(tokens[p])) : SendDownloadProgressSent(p, r)
        \/ SendDownloadProgressThrown(p)
        \/ \E b \in AppDocs, a \in AppDocs : NotifyOnAppUpdateStart(p, b, a)
        \/ NotifyOnAppUpdateFetched(p)
        \/ \E r \in OutcomeSeqs(Len(tokens[p])) : NotifyOnAppUpdateSent(p, r)
        \/ NotifyOnAppUpdateLogged(p)
        \/ NotifyOnAppUpdateThrown(p)
        \/ \E m \in Methods, t \in DeviceTokens : TestNotificationStart(p, m, t)
        \/ TestNotificationSent(p)
        \/ TestNotificationThrown(p)
        \/ \E m \in Methods, n \in StatsDays : GetNotificationStatsStart(p, m, n)
        \/ GetNotificationStatsCounted(p)
        \/ GetNotificationStatsAnswered(p)
        \/ GetNotificationStatsThrown(p)

Spec == Init /\ [][Next]_vars

\* The steps in which an awaited store or gateway call of invocation p
\* returns or throws.
Settles(p) ==
    \/ SendNotificationFetched(p)
    \/ \E r \in OutcomeSeqs(Len(tokens[p])) : SendNotificationSent(p, r)
    \/ SendNotificationLookedUp(p)
    \/ SendNotificationThrown(p)
    \/ SendDownloadProgressSingleSent(p)
    \/ SendDownloadProgressFetched(p)
    \/ \E r \in OutcomeSeqs(Len(tokens[p])) : SendDownloadProgressSent(p, r)
    \/ SendDownloadProgressThrown(p)
    \/ NotifyOnAppUpdateFetched(p)
    \/ \E r \in OutcomeSeqs(Len(tokens[p])) : NotifyOnAppUpdateSent(p, r)
    \/ NotifyOnAppUpdateLogged(p)
    \/ NotifyOnAppUpdateThrown(p)
    \/ TestNotificationSent(p)
    \/ TestNotificationThrown(p)
    \/ GetNotificationStatsCounted(p)
    \/ GetNotificationStatsAnswered(p)
    \/ GetNotificationStatsThrown(p)

\* One invocation whose awaited calls each return or throw in the end;
\* nothing is assumed about the deletions that are not awaited.
SpecLive == Spec /\ \A p \in Procs : WF_vars(Settles(p))

\* The clean-up loop of sendNotification reads only resp.success: one
\* error kind stands for the failures where invocations run concurrently.
ConcOutcomeSeqs(n) == [1..n -> {"success", "InvalidHandle"}]

\* The steps of a well-formed sendNotification request.
SendNotificationSteps(p) ==
    \/ SendNotificationStart(p, "POST", "app1", "UPDATE")
    \/ SendNotificationFetched(p)
    \/ \E r \in ConcOutcomeSeqs(Len(tokens[p])) : SendNotificationSent(p, r)
    \/ SendNotificationLookedUp(p)
    \/ SendNotificationThrown(p)
    \/ \E d \in DocIds : DeleteApplied(p, d)
    \/ \E d \in DocIds : DeleteFailed(p, d)

\* The steps of a run of cleanupTokens.
CleanupTokensSteps(p) ==
    \/ \E n \in CleanupDays : CleanupTokensStart(p, n)
    \/ CleanupTokensQueried(p)
    \/ CleanupTokensCommitted(p)
    \/ CleanupTokensThrown(p)

\* Stores whose records have usable tokens and registration days around
\* the cutoff.
TimedTokenStores ==
    UNION {[ids -> [token : TokenValues, timestamp : CleanupTimestamps]] :
           ids \in SUBSET DocIds}

\* A run of cleanupTokens (p1) together with a second invocation (p2):
\* another run of cleanupTokens or a sendNotification, in any interleaving.
InitCleanup == InitWith(Procs, TimedTokenStores, {<<>>})

NextCleanup ==
    \/ CleanupTokensSteps("p1")
    \/ CleanupTokensSteps("p2")
    \/ SendNotificationSteps("p2")

SpecCleanup == InitCleanup /\ [][NextCleanup]_vars

\* Stores whose records have usable tokens.
UsableTokenStores ==
    UNION {[ids -> [token : TokenValues, timestamp : Timestamps]] :
           ids \in SUBSET DocIds}

\* Two concurrent sendNotification invocations, in any interleaving.
InitRace == InitWith(Procs, UsableTokenStores, {<<>>})

NextRace == \E p \in Procs : SendNotificationSteps(p)

SpecRace == InitRace /\ [][NextRace]_vars

\* One getNotificationStats request against any log that the update
\* trigger can have written.
GetNotificationStatsSteps(p) ==
    \/ \E m \in Methods, n \in StatsDays : GetNotificationStatsStart(p, m, n)
    \/ GetNotificationStatsCounted(p)
    \/ GetNotificationStatsAnswered(p)
    \/ GetNotificationStatsThrown(p)

InitStats == InitWith({"p1"}, TokenStores, LogStores)

NextStats == GetNotificationStatsSteps("p1")

SpecStats == InitStats /\ [][NextStats]_vars

\* ---------------------------------------------------------------- vocabulary of the properties
\* The invocation is a broadcast over the whole token store.
IsHttpBroadcast(p) ==
    \/ req[p].fn = "sendNotification"
    \/ req[p].fn = "sendDownloadProgress" /\ Falsy(req[p].deviceToken)

IsBroadcast(p) == IsHttpBroadcast(p) \/ req[p].fn = "notifyOnAppUpdate"

\* The await at `at` of invocation p returned / threw.
Returned(p, at) ==
    \E i \in DOMAIN settled[p] : settled[p][i] = [at |-> at, ok |-> TRUE]
Threw(p, at) ==
    \E i \in DOMAIN settled[p] : settled[p][i] = [at |-> at, ok |-> FALSE]

\* The broadcast has produced its report: the 200 response of an HTTP
\* handler, the returned multicast response of the trigger.
Reported(p) ==
    /\ pc[p] = "done"
    /\ \/ /\ IsHttpBroadcast(p)
          /\ Len(replies[p]) > 0
          /\ replies[p][Len(replies[p])].status = 200
       \/ /\ req[p].fn = "notifyOnAppUpdate"
          /\ result[p] = "response"

\* The token values fetched by p, and the outcomes p received for value t.
FetchedValues(p) == {tokens[p][i] : i \in DOMAIN tokens[p]}
OutcomesOf(p, t) ==
    {response[p][i] : i \in {j \in DOMAIN response[p] : tokens[p][j] = t}}

\* The invocation issued no store read, no store write, no log write and
\* no gateway call.
NoSideEffects(p) ==
    /\ calls[p] = NoCalls
    /\ pendingDeletes[p] = {}
    /\ settled[p] = <<>>
    /\ logs = <<>>

\* ---------------------------------------------------------------- C1
\* C1 (pruning): once a broadcast has produced its report, no record
\* holding a token value whose outcome in that broadcast was InvalidHandle
\* is left in the token store.
C1_Pruning ==
    \A p \in Procs :
        (IsBroadcast(p) /\ Reported(p)) =>
            \A t \in FetchedValues(p) :
                "InvalidHandle" \in OutcomesOf(p, t) =>
                    DocsWithToken(tokenDocs, t) = {}

\* ---------------------------------------------------------------- C2
\* C2 (non-pruning): a token whose only failures in a broadcast are
\* TransientFailure or QuotaExceeded is still in the store after the
\* broadcast, and the broadcast issues deletions only for tokens whose
\* failure kind is InvalidHandle.
C2_NonPruning ==
    \A p \in Procs :
        IsBroadcast(p) =>
            /\ \A x \in calls[p].deletes :
                   "InvalidHandle" \in OutcomesOf(p, x.token)
            /\ \A t \in FetchedValues(p) :
                   (/\ pc[p] = "done"
                    /\ OutcomesOf(p, t) \cap
                           {"TransientFailure", "QuotaExceeded"} # {}
                    /\ "InvalidHandle" \notin OutcomesOf(p, t))
                   => DocsWithToken(tokenDocs, t) # {}

\* ---------------------------------------------------------------- C3
\* C3 (dedup): the handles passed to a multicast send contain every token
\* value exactly once, also when the store holds the value in two records.
C3_Dedup ==
    \A p \in Procs :
        \A k \in DOMAIN calls[p].multicast :
            LET handles == calls[p].multicast[k]
            IN \A i, j \in DOMAIN handles :
                   handles[i] = handles[j] => i = j

\* ---------------------------------------------------------------- C4
\* C4 (count conservation): the counts a broadcast reports add up to the
\* number of distinct token values fetched, and totalSent is that number.
C4_CountConservation ==
    \A p \in Procs :
        (IsHttpBroadcast(p) /\ Reported(p)) =>
            LET r == replies[p][Len(replies[p])]
                n == Cardinality(FetchedValues(p))
            IN /\ r.successCount + r.failureCount = n
               /\ req[p].fn = "sendNotification" => r.totalSent = n

\* ---------------------------------------------------------------- C5
\* The store holds no record with a usable (truthy) token.
NoUsableToken(docs) == \A d \in DOMAIN docs : docs[d].token \notin TokenValues

\* C5 (no targets): when the fetch of a broadcast returns and the store
\* yields no usable token, the invocation ends with the no-targets outcome
\* (404, or the trigger's "no tokens" return) without any gateway call.
C5_NoTargets ==
    \A p \in Procs :
        (/\ IsBroadcast(p)
         /\ Returned(p, "fetching")
         /\ \/ tokens[p] = <<>>
            \/ NoUsableToken(tokenDocs) /\ calls[p].deletes = {})
        => /\ pc[p] = "done"
           /\ calls[p].multicast = <<>>
           /\ calls[p].single = <<>>
           /\ IsHttpBroadcast(p) => replies[p] = <<[status |-> 404]>>
           /\ req[p].fn = "notifyOnAppUpdate" => result[p] = "noTokens"

\* A broadcast over a store whose only record has a falsy token ended with
\* the no-targets response.
C5_Witness ==
    \E p \in Procs :
        /\ req[p].fn = "sendNotification"
        /\ Returned(p, "fetching")
        /\ DOMAIN tokenDocs # {}
        /\ NoUsableToken(tokenDocs)
        /\ replies[p] = <<[status |-> 404]>>

\* ---------------------------------------------------------------- C6
\* A required field of the request is absent.
MissingRequired(r) ==
    CASE r.fn = "sendNotification" ->
             r.appId = Undefined \/ r.type = Undefined
      [] r.fn = "sendDownloadProgress" ->
             r.appId = Undefined \/ r.progress = Undefined
      [] r.fn = "testNotification" -> r.token = Undefined
      [] OTHER -> FALSE

\* C6 as stated: every request missing a required field is answered with
\* 400 and has no side effect.
C6_AnyMethod ==
    \A p \in Procs :
        (pc[p] # "idle" /\ MissingRequired(req[p])) =>
            /\ replies[p] = <<[status |-> 400]>>
            /\ NoSideEffects(p)

\* The handler checks the request method before the required fields.
ChecksMethod(r) == r.fn \in {"sendNotification", "testNotification"}

\* C6 (validation precedes side effects): a request missing a required
\* field - a POST request where the handler checks the method - is
\* answered with 400 and no store read, store write, log write or gateway
\* call happens; a progress of 0 is not a missing field.
C6_Validation ==
    \A p \in Procs :
        /\ (/\ pc[p] # "idle"
            /\ MissingRequired(req[p])
            /\ ChecksMethod(req[p]) => req[p].method = "POST")
           => /\ pc[p] = "done"
              /\ replies[p] = <<[status |-> 400]>>
              /\ NoSideEffects(p)
        /\ (/\ req[p].fn = "sendDownloadProgress"
            /\ ~Falsy(req[p].appId)
            /\ req[p].progress = "0")
           => \A i \in DOMAIN replies[p] : replies[p][i].status # 400

\* A POST to sendNotification without appId was answered with 400.
C6_Witness ==
    \E p \in Procs :
        /\ req[p].fn = "sendNotification"
        /\ req[p].method = "POST"
        /\ req[p].appId = Undefined
        /\ replies[p] = <<[status |-> 400]>>

\* ---------------------------------------------------------------- C7
\* C7 (partial failure is data): whenever the multicast send of an HTTP
\* broadcast returned, the handler answers 200 with success = true and
\* the per-handle counts.
C7_PartialFailureIsData ==
    \A p \in Procs :
        (IsHttpBroadcast(p) /\ Returned(p, "sending") /\ pc[p] = "done") =>
            /\ Len(replies[p]) = 1
            /\ replies[p][1].status = 200
            /\ replies[p][1].success
            /\ replies[p][1].successCount = SuccessCount(response[p])
            /\ replies[p][1].failureCount = FailureCount(response[p])

\* ---------------------------------------------------------------- C8
\* C8 (pruning failures are swallowed): when a store look-up made while
\* pruning the tokens that failed with InvalidHandle fails, the broadcast
\* still goes through the remaining failed tokens and answers 200, never
\* 500.
C8_PruningFailuresSwallowed ==
    \A p \in Procs :
        (/\ req[p].fn = "sendNotification"
         /\ \A i \in DOMAIN response[p] :
                response[p][i] \in {"success", "InvalidHandle"}
         /\ Threw(p, "pruning")
         /\ pc[p] = "done")
        => /\ Len(replies[p]) = 1
           /\ replies[p][1].status = 200
           /\ pruneIdx[p] = Len(FailedTokens(response[p], tokens[p]))

\* ---------------------------------------------------------------- C9
\* C9 (engine-fatal failures): when the token fetch or the multicast send
\* of an HTTP broadcast throws, the handler answers 500 - not 404, not
\* 200 - and the invocation deletes no token and appends no log entry.
C9_EngineFatal ==
    \A p \in Procs :
        (IsHttpBroadcast(p) /\ (Threw(p, "fetching") \/ Threw(p, "sending")))
        => /\ pc[p] = "done"
           /\ Len(replies[p]) = 1
           /\ replies[p][1].status = 500
           /\ replies[p][1].success = FALSE
           /\ calls[p].deletes = {}
           /\ pendingDeletes[p] = {}
           /\ calls[p].logAdds = 0
           /\ logs = <<>>

\* The multicast send of a sendNotification over a non-empty store threw.
C9_Witness ==
    \E p \in Procs :
        /\ req[p].fn = "sendNotification"
        /\ Returned(p, "fetching")
        /\ Threw(p, "sending")
        /\ Len(tokens[p]) > 0
        /\ pc[p] = "done"

\* ---------------------------------------------------------------- C10
\* C10 (update trigger no-op): when the version of the app document is
\* the same before and after the update, the trigger reads no token,
\* calls no gateway and appends no log entry, whatever else changed.
C10_VersionUnchangedNoOp ==
    \A p \in Procs :
        (req[p].fn = "notifyOnAppUpdate" /\ req[p].oldVersion = req[p].version)
        => /\ pc[p] = "done"
           /\ result[p] = "unchanged"
           /\ NoSideEffects(p)

\* The trigger ended on an update that changed the name but not the version.
C10_Witness ==
    \E p \in Procs :
        /\ req[p].fn = "notifyOnAppUpdate"
        /\ req[p].oldVersion = req[p].version
        /\ req[p].oldName # req[p].appName
        /\ pc[p] = "done"

\* ---------------------------------------------------------------- C11
\* The application log entry the update trigger p is to write.
ExpectedUpdateEntry(p) ==
    [appId |-> AppId, appName |-> req[p].appName, type |-> "UPDATE",
     version |-> req[p].version,
     sentCount |-> SuccessCount(response[p]),
     failureCount |-> FailureCount(response[p]),
     timestamp |-> req[p].now]

\* C11 (update trigger success): when the version changed, the store
\* holds a usable token and the multicast returned, the trigger issues
\* exactly one log write, and with that write exactly one entry is
\* appended, carrying the new version, the app id and name and the
\* success and failure counts of the multicast (all tokens succeeding:
\* sentCount = number of tokens); the trigger then returns the response.
\* No entry exists without that write (a write the store rejects makes
\* the trigger throw).
C11_UpdateLogged ==
    \A p \in Procs :
        req[p].fn = "notifyOnAppUpdate" =>
            /\ Returned(p, "sending") =>
                   /\ req[p].oldVersion # req[p].version
                   /\ Len(tokens[p]) > 0
                   /\ calls[p].logAdds = 1
                   /\ pc[p] \in {"logging", "done"}
            /\ Returned(p, "logging") =>
                   /\ logs = <<ExpectedUpdateEntry(p)>>
                   /\ logs[1].version = req[p].version
                   /\ logs[1].sentCount + logs[1].failureCount = Len(tokens[p])
                   /\ (\A i \in DOMAIN response[p] : response[p][i] = "success")
                          => logs[1].sentCount = Len(tokens[p])
                   /\ result[p] = "response"
            /\ ~Returned(p, "logging") => logs = <<>>

\* The trigger logged an update to version 1.1 that reached every record
\* of a full store.
C11_Witness ==
    \E p \in Procs :
        /\ req[p].fn = "notifyOnAppUpdate"
        /\ req[p].oldVersion = "1.0"
        /\ req[p].version = "1.1"
        /\ Len(tokens[p]) = MaxDocs
        /\ \A i \in DOMAIN response[p] : response[p][i] = "success"
        /\ result[p] = "response"
        /\ Len(logs) = 1
        /\ logs[1].sentCount = MaxDocs

\* ---------------------------------------------------------------- C12
\* q is a clean-up run that started after the clean-up run p had returned,
\* with the same value of Date.now(), hence the same cutoff.
RunsInSuccession(p, q) ==
    /\ p # q
    /\ req[p].fn = "cleanupTokens"
    /\ req[q].fn = "cleanupTokens"
    /\ req[p].now = req[q].now
    /\ p \in locals[q].predecessors
    /\ result[p] = "returned"

\* C12 (clean-up idempotence): a clean-up run that follows a returned
\* clean-up run at the same cutoff, nothing having been registered or
\* deleted in between, finds no document to delete: its batch is empty,
\* its deletedCount is 0 and its commit removes nothing.
C12_CleanupIdempotent ==
    \A p, q \in Procs :
        (RunsInSuccession(p, q) /\ Returned(q, "querying")) =>
            /\ locals[q].snapshot = {}
            /\ locals[q].deletedCount = 0
            /\ locals[q].removed = {}
            /\ ExpiredDocs(tokenDocs, NinetyDaysAgo(req[q].now)) = {}

\* A first run removed a record, a second run at the same cutoff returned
\* with deletedCount 0.
C12_Witness ==
    \E p, q \in Procs :
        /\ RunsInSuccession(p, q)
        /\ locals[p].removed # {}
        /\ result[q] = "returned"
        /\ locals[q].deletedCount = 0

\* ---------------------------------------------------------------- C13
\* The age of a record at the run p, in days.
Age(p, doc) == req[p].now - doc.timestamp

\* C13 (clean-up is purely age-based): the commit of a clean-up run
\* removes every record registered more than RetentionDays before the run
\* and leaves every record registered at or after the cutoff as it was,
\* whatever a concurrent broadcast was told about the tokens; the batch it
\* commits holds exactly the records that were older than the cutoff at
\* the query.
C13_AgeBased ==
    [][\A p \in Procs :
          /\ (req[p].fn = "cleanupTokens" /\ pc[p] = "querying"
                  /\ pc'[p] = "committing") =>
                 locals'[p].snapshot =
                     {d \in DOMAIN tokenDocs :
                          Age(p, tokenDocs[d]) > RetentionDays}
          /\ (req[p].fn = "cleanupTokens" /\ pc[p] = "committing"
                  /\ result'[p] = "returned") =>
                 /\ DOMAIN tokenDocs' =
                        {d \in DOMAIN tokenDocs :
                             Age(p, tokenDocs[d]) <= RetentionDays}
                 /\ \A d \in DOMAIN tokenDocs' : tokenDocs'[d] = tokenDocs[d]
      ]_vars

\* A run removed a record older than the cutoff and left one registered
\* exactly at the cutoff, while a broadcast had been told that the token
\* of the record left is an invalid handle.
C13_Witness ==
    \E p, q \in Procs :
        /\ req[p].fn = "cleanupTokens"
        /\ result[p] = "returned"
        /\ locals[p].removed # {}
        /\ \E d \in DOMAIN tokenDocs :
               /\ Age(p, tokenDocs[d]) = RetentionDays
               /\ req[q].fn = "sendNotification"
               /\ "InvalidHandle" \in OutcomesOf(q, tokenDocs[d].token)

\* ---------------------------------------------------------------- C14
\* C14 (clean-up count under interleaving): the count a clean-up run
\* reports is the number of records its commit removed, also when a
\* record matched by its query was deleted by a broadcast's pruning (or
\* by another clean-up run) before the commit.
C14_CountExact ==
    \A p \in Procs :
        (req[p].fn = "cleanupTokens" /\ result[p] = "returned") =>
            locals[p].deletedCount = Cardinality(locals[p].removed)

\* ---------------------------------------------------------------- C15
\* p and q are two sendNotification invocations that both fetched the
\* token value t and were both told that the delivery to t failed.
BothFailedOn(p, q, t) ==
    /\ p # q
    /\ req[p].fn = "sendNotification"
    /\ req[q].fn = "sendNotification"
    /\ t \in FetchedValues(p) \cap FetchedValues(q)
    /\ OutcomesOf(p, t) # {"success"}
    /\ OutcomesOf(q, t) # {"success"}

\* No awaited call of invocation p threw.
NothingThrew(p) == \A i \in DOMAIN settled[p] : settled[p][i].ok

\* C15 (concurrent broadcasts, duplicate deletion): when two broadcasts
\* that both fetched a token and both received a failure for it have
\* ended, no store or gateway call of theirs having thrown, each has
\* answered 200 with its own counts and no record holds the token.
C15_DuplicateDeletion ==
    \A p, q \in Procs : \A t \in TokenValues :
        (/\ BothFailedOn(p, q, t)
         /\ pc[p] = "done" /\ pc[q] = "done"
         /\ NothingThrew(p) /\ NothingThrew(q)) =>
            /\ replies[p] = <<SendNotificationReport(p, response[p])>>
            /\ replies[q] = <<SendNotificationReport(q, response[q])>>
            /\ DocsWithToken(tokenDocs, t) = {}

\* ---------------------------------------------------------------- C16
\* The entries of the log inside the trailing window of request p.
InWindow(p) ==
    {i \in DOMAIN logs : req[p].now - logs[i].timestamp < StatsWindowDays}

\* The rate the statistics are to show: "0%" for no delivery at all,
\* else the share of the successful ones with two decimals.
ExpectedRate(sent, failed) ==
    IF sent + failed = 0
    THEN "0%"
    ELSE ToFixed2(sent, sent + failed) \o "%"

\* C16 (division-safe statistics): the report of getNotificationStats
\* shows successRate "0%" exactly when sent + failed = 0 over the window,
\* and sent / (sent + failed) as a percentage with two decimals in every
\* other case, sent = 0 with failed > 0 included.
C16_DivisionSafe ==
    \A p \in Procs :
        (/\ req[p].fn = "getNotificationStats"
         /\ pc[p] = "done"
         /\ replies[p] # <<>>
         /\ replies[p][1].status = 200) =>
            LET sent == SumOver(logs, InWindow(p), "sentCount")
                failed == SumOver(logs, InWindow(p), "failureCount")
            IN /\ replies[p][1].sent = sent
               /\ replies[p][1].failed = failed
               /\ replies[p][1].successRate = ExpectedRate(sent, failed)
               /\ replies[p][1].successRate = "0%" <=> sent + failed = 0

\* ---------------------------------------------------------------- C17
\* The phase of a broadcast an await belongs to.
PhaseOf(at) ==
    CASE at = "fetching" -> 1
      [] at = "sending" -> 2
      [] at = "pruning" -> 3
      [] OTHER -> 4

\* C17 (broadcast phase order): the awaits of a sendNotification broadcast
\* settle in the order fetch, multicast, reconcile, the fetch and the
\* multicast are issued at most once, and when the 200 report is sent
\* every deletion the broadcast issued has taken effect in the store.
C17_PhaseOrder ==
    \A p \in Procs :
        req[p].fn = "sendNotification" =>
            /\ \A i, j \in DOMAIN settled[p] :
                   i < j => /\ PhaseOf(settled[p][i].at) <= PhaseOf(settled[p][j].at)
                            /\ PhaseOf(settled[p][i].at) < 3 =>
                                   settled[p][i].at # settled[p][j].at
            /\ Len(calls[p].multicast) <= 1
            /\ Reported(p) =>
                   /\ pendingDeletes[p] = {}
                   /\ \A x \in calls[p].deletes : x.doc \notin DOMAIN tokenDocs

\* ---------------------------------------------------------------- C18
\* The invocation is a single-target send.
IsTargetedSend(p) ==
    \/ req[p].fn = "testNotification"
    \/ req[p].fn = "sendDownloadProgress" /\ ~Falsy(req[p].deviceToken)

\* C18 (targeted sends bypass the store): a single-target send issues no
\* store read, no deletion, no log write and no multicast, no step of it
\* changes the token store or the log, and a send that throws is answered
\* with the 500 reply, the records of the handle staying where they are.
C18_TargetedBypass ==
    /\ [](\A p \in Procs :
              IsTargetedSend(p) =>
                  /\ calls[p].reads = 0
                  /\ calls[p].deletes = {}
                  /\ calls[p].logAdds = 0
                  /\ calls[p].multicast = <<>>
                  /\ pendingDeletes[p] = {}
                  /\ logs = <<>>
                  /\ Threw(p, "sendingOne") => replies[p] = <<ErrorReply>>)
    /\ [][\A p \in Procs :
              IsTargetedSend(p)' => (tokenDocs' = tokenDocs /\ logs' = logs)
         ]_vars

\* A progress notification to the device token A threw and was answered
\* with 500; a record holding A is still in the store.
C18_Witness ==
    \E p \in Procs :
        /\ req[p].fn = "sendDownloadProgress"
        /\ req[p].deviceToken = "A"
        /\ Threw(p, "sendingOne")
        /\ replies[p] = <<ErrorReply>>
        /\ DocsWithToken(tokenDocs, "A") # {}

\* ---------------------------------------------------------------- C19
\* C19 (successful targets survive reconciliation): a record that a
\* broadcast's pruning removed holds no token for which that broadcast
\* received a success, duplicates of one value with differing outcomes
\* included.
C19_SuccessfulSurvive ==
    \A p \in Procs :
        IsBroadcast(p) =>
            \A x \in calls[p].deletes :
                x.doc \notin DOMAIN tokenDocs =>
                    "success" \notin OutcomesOf(p, x.token)

\* ---------------------------------------------------------------- C20
\* The invocation serves an HTTP request.
IsHttp(p) ==
    req[p].fn \in {"sendNotification", "sendDownloadProgress",
                   "getNotificationStats", "testNotification"}

\* C20 (exactly one response): an HTTP invocation has sent no response
\* while it runs and exactly one when it has ended, on every path; after
\* the response it issues no store or gateway call and no second response;
\* and, every awaited call returning or throwing, it ends.
C20_ExactlyOneResponse ==
    /\ [](\A p \in Procs :
              IsHttp(p) =>
                  Len(replies[p]) = IF pc[p] = "done" THEN 1 ELSE 0)
    /\ [][\A p \in Procs :
              (IsHttp(p) /\ replies[p] # <<>>) =>
                  (calls'[p] = calls[p] /\ replies'[p] = replies[p])
         ]_vars
    /\ \A p \in Procs : IsHttp(p) ~> (pc[p] = "done" /\ Len(replies[p]) = 1)

\* A statistics request whose log query threw has been answered once,
\* with the 500 reply.
C20_Witness ==
    \E p \in Procs :
        /\ req[p].fn = "getNotificationStats"
        /\ Threw(p, "readingLogs")
        /\ pc[p] = "done"
        /\ replies[p] = <<ErrorReply>>

====
